---- MODULE Spec2Model ----
(***************************************************************************)
(* csdap-bulk-download: the login handshake of CsdapClient.get_auth_token  *)
(* and the download scheduler of cli (a ThreadPoolExecutor, the            *)
(* future_to_path dictionary, the log_results done-callback and the two    *)
(* concurrent.futures.wait calls), with CsdapClient.download_file run by   *)
(* the pool's worker threads against a shared destination tree.            *)
(*                                                                         *)
(* Strings are sequences of tokens (a token is a piece of the string that  *)
(* the code never splits), so urlparse, parse_qs and startswith are        *)
(* computed on the text and not assumed.                                   *)
(***************************************************************************)
EXTENDS Integers, Sequences, FiniteSets, TLC

\* ------------------------------------------------------------------ bounds

\* rows of the input CSVs that pass the filters, at most
MaxTasks == 4
\* the largest value of --concurrency
MaxConcurrency == 2
\* input files on the command line, at most
MaxCsvs == 2
\* rows below the header of an input file, at most
MaxRows == 2

None == "None"

\* ------------------------------------------------------------- text helpers

RECURSIVE IndexFrom(_, _, _)
\* str.find(tok, start), 1-based; 0 when absent
IndexFrom(s, tok, i) ==
    IF i > Len(s) THEN 0
    ELSE IF s[i] = tok THEN i
    ELSE IndexFrom(s, tok, i + 1)

\* tok in s
Contains(s, tok) == IndexFrom(s, tok, 1) # 0

\* s[a:b) with 1-based a, b
Slice(s, a, b) == IF b <= a THEN <<>> ELSE SubSeq(s, a, b - 1)

\* str.startswith
StartsWith(s, prefix) ==
    /\ Len(s) >= Len(prefix)
    /\ SubSeq(s, 1, Len(prefix)) = prefix

\* ------------------------------------------------------------------- URLs

EdlHost == "https://urs.earthdata.nasa.gov"
ApiHost == "https://csdap.earthdata.nasa.gov"
Hosts == {EdlHost, ApiHost}

\* urlparse(url).path: what follows the scheme and host, up to "?"
UrlPath(url) ==
    LET from == IF Len(url) > 0 /\ url[1] \in Hosts THEN 2 ELSE 1
        q == IndexFrom(url, "?", from)
    IN  Slice(url, from, IF q = 0 THEN Len(url) + 1 ELSE q)

\* urlparse(url).query: what follows the first "?"
UrlQuery(url) ==
    LET q == IndexFrom(url, "?", 1)
    IN  IF q = 0 THEN <<>> ELSE Slice(url, q + 1, Len(url) + 1)

RECURSIVE SplitAmp(_)
\* query.split("&")
SplitAmp(q) ==
    LET a == IndexFrom(q, "&", 1)
    IN  IF a = 0 THEN <<q>>
        ELSE <<Slice(q, 1, a)>> \o SplitAmp(Slice(q, a + 1, Len(q) + 1))

\* the (name, value) pairs of a query; a pair whose value is blank is dropped
\* (keep_blank_values is False)
QueryPairs(q) ==
    LET pieces == SplitAmp(q)
    IN  { <<pieces[i][1], Slice(pieces[i], 3, Len(pieces[i]) + 1)>> :
            i \in { j \in 1..Len(pieces) :
                      /\ Len(pieces[j]) >= 3
                      /\ pieces[j][2] = "=" } }

\* parse_qs: the names present, each with its set of values
parse_qs(q) ==
    LET pairs == QueryPairs(q)
        names == { p[1] : p \in pairs }
    IN  [ n \in names |-> { p[2] : p \in { r \in pairs : r[1] = n } } ]

\* querystring.get(name) is truthy
QsHas(qs, name) == name \in DOMAIN qs

\* response.headers.get(name, default)
HeaderGet(headers, name, default) ==
    IF \E h \in headers : h[1] = name
    THEN (CHOOSE h \in headers : h[1] = name)[2]
    ELSE default

HasHeader(headers, name) == \E h \in headers : h[1] = name

AuthorizePrefix == <<"/oauth/authorize">>

\* mutant: every status counts as ok
Ok_Always(status) == TRUE

\* response.ok: a status below 400
Ok(status) == status < 400

\* mutant: any 3xx status is taken for the redirect
IsRedirect_Any3xx(status) == status >= 300 /\ status < 400

IsRedirect(status) == status \in {302, 307}

\* ------------------------------------------------- the services' answers

\* Location headers the API may answer step 1 with
Step1Locations ==
    { <<EdlHost, "/oauth/authorize", "?", "client_id", "=", "csdap">>,
      <<EdlHost, "/oauth/authorize", "/v2">>,
      <<EdlHost, "/login", "/oauth/authorize">>,
      <<EdlHost, "/oauth">> }

Step1Headers == {{}} \cup { {<<"Location", l>>} : l \in Step1Locations }

Step1Status == {200, 301, 302, 307, 404, 500}

\* Location headers Earthdata Login may answer step 2 with
Step2Locations ==
    { <<ApiHost, "/cb", "?", "code", "=", "c1">>,
      <<ApiHost, "/cb", "?", "state", "=", "&", "code", "=", "c1">>,
      <<ApiHost, "/cb", "?", "error", "=", "access_denied", "&",
        "error_msg", "=", "denied">>,
      <<ApiHost, "/cb", "?", "error", "=", "access_denied">>,
      <<ApiHost, "/cb", "?", "code", "=", "c1", "&", "error", "=", "x", "&",
        "error_msg", "=", "denied">>,
      <<ApiHost, "/cb">> }

Step2Headers == {{}} \cup { {<<"Location", l>>} : l \in Step2Locations }

Step2Status == {200, 301, 303, 302, 307, 401, 403, 500}

Step2Texts ==
    { <<>>,
      <<"<a href=", "\"", "/approve?", "resolution_url", "=",
        "https://urs/approve_app", "\"", ">">>,
      <<"{", "\"", "resolution_url", "\"", ":", "\"",
        "https://urs/approve_app", "\"", "}">> }

Tokens == {"tokA", "tokB"}

\* bodies of the answer to the token POST when the API grants access_token:
\* JSON objects (sets of key/value pairs) or text that is not JSON
TokenBodies(access_token) ==
    { [json |-> TRUE, obj |-> {<<"access_token", access_token>>}],
      [json |-> TRUE, obj |-> {<<"detail", "bad code">>}],
      [json |-> FALSE, obj |-> {}] }

Step3Status == {200, 400, 500}

username == "user"
password == "secret"

\* ------------------------------------------------------------------ state

VARIABLES
    pc,              \* where the main thread (cli) is
    grant,           \* the API: the token it grants for a valid code
    stalled,         \* the API: the task whose download never answers, or 0
    failure,         \* the API: the body of its answers that are not ok
    client,          \* which client class of the repository is in use
    sent,            \* the login requests issued so far, in order
    response,        \* get_auth_token: the last answer received
    edl_url,         \* get_auth_token: the Location of step 1
    code,            \* get_auth_token: the code of the step-2 redirect
    token,           \* cli: what get_auth_token returned
    err,             \* the exception that left cli, or NoError
    max_workers,     \* executor._max_workers
    started,         \* how many times a worker took each task's work item
    row,             \* rows submitted so far in this run
    csv_rows,        \* the rows of the input, once it was read to its end
    phase,           \* where each task's future and work item are
    future_to_path,  \* the keys of the dictionary
    callbacks,       \* futures with log_results in _done_callbacks
    waitset,         \* the futures the running wait() call was given
    seen,            \* what download_file found at out_dir/path
    answer,          \* how the download of each task went
    result,          \* what download_file returned or raised
    msg,             \* the message or file path in what download_file returned
    reported,        \* how many times log_results logged each task
    requests,        \* download requests issued for each task
    bearer,          \* the token of each task's authorization header
    disk,            \* out_dir: the state of each destination directory
    session,         \* CsdaClient: session.headers["Authorization"], if set
    authorization,   \* the Authorization headers of the requests sent
    tree,            \* the directories that exist, out_dir being <<>>
    frames,          \* Path.mkdir: the calls each task has still to make
    mk,              \* Path.mkdir: how the call of each task stands
    met,             \* Path.mkdir: the directories os.mkdir found existing
    absent,          \* the directories missing when each task called mkdir
    input_csvs,      \* cli: the input files, read by csv.DictReader
    scene_ids,       \* cli: the --scene_id filter, lower case; {} is no filter
    asset_types,     \* cli: the --asset_type filter, lower case
    csv,             \* the index of input_csv in input_csvs, 0 before the loop
    line,            \* the rows of input_csv read so far
    api_version,     \* cli: api_version, 0 before the loop assigns it
    warnings,        \* the input files "Detected legacy CSV." was logged for
    submitted,       \* the arguments of the submit calls of the reader
    complete,        \* "Complete." was echoed
    run              \* 1 in the first run of cli, 2 in a repeated run

loginVars == <<sent, response, edl_url, code, token, err>>
poolVars == <<max_workers, started, row, csv_rows, phase, future_to_path, callbacks,
              waitset, complete>>
fileVars == <<seen, answer, result, msg, reported, requests, bearer, disk>>
envVars == <<grant, stalled, failure, client>>
sessionVars == <<session, authorization>>
mkdirVars == <<tree, frames, mk, met, absent>>
csvVars == <<input_csvs, scene_ids, asset_types, csv, line, api_version, warnings,
             submitted>>
vars == <<pc, envVars, loginVars, poolVars, fileVars, sessionVars, mkdirVars,
          csvVars, run>>

\* --------------------------------------------------------- get_auth_token

AuthError(why, detail) == [type |-> "AuthError", why |-> why, detail |-> detail]
Raised(type) == [type |-> type, why |-> "", detail |-> <<>>]
NoError == Raised("None")

\* mutant: the path of the Location is not looked at
Step1Error_NoPathCheck(status, headers) ==
    IF status \notin {302, 307}
    THEN AuthError("Expected API to respond with a redirect, got", <<status>>)
    ELSE NoError

\* step 1: the exception raised on the API's answer, or NoError
Step1Error(status, headers) ==
    LET location == HeaderGet(headers, "Location", <<>>)
        redirect_path == UrlPath(location)
    IN  IF ~IsRedirect(status)
        THEN AuthError("Expected API to respond with a redirect, got", <<status>>)
        ELSE IF ~StartsWith(redirect_path, AuthorizePrefix)
        THEN AuthError("Expected redirect to /oauth/authorize, got", redirect_path)
        ELSE NoError

\* response.text[start:end] after "resolution_url"
ResolutionUrl(text) ==
    LET start == IndexFrom(text, "resolution_url", 1) + 2
        end == IndexFrom(text, "\"", start)
    IN  Slice(text, start, IF end = 0 THEN Len(text) ELSE end)

\* mutant: the status of the redirect is not looked at
AppAuthorization_AnyRedirect(status, querystring, text) ==
    /\ QsHas(querystring, "error")
    /\ Contains(text, "resolution_url")

\* the application is not yet authorized: querystring.get("error") and
\* response.status_code == 302 and "resolution_url" in response.text
AppAuthorization(status, querystring, text) ==
    /\ QsHas(querystring, "error")
    /\ status = 302
    /\ Contains(text, "resolution_url")

\* mutant: a redirect that carries a code passes, whatever else it carries
Step2Error_CodeSuffices(status, headers, text) ==
    LET querystring == parse_qs(UrlQuery(HeaderGet(headers, "Location", <<>>)))
    IN  IF ~Ok(status)
        THEN AuthError("Failed to authenticate with Earthdata Login.", text)
        ELSE IF ~IsRedirect(status)
        THEN AuthError("Expected Earthdata Login to respond with a redirect, got",
                       <<status>>)
        ELSE IF ~QsHas(querystring, "code")
        THEN Raised("KeyError")
        ELSE NoError

\* steps 2 and 3: the exception raised on Earthdata Login's answer, or NoError
Step2Error(status, headers, text) ==
    LET querystring == parse_qs(UrlQuery(HeaderGet(headers, "Location", <<>>)))
    IN  IF ~Ok(status)
        THEN AuthError("Failed to authenticate with Earthdata Login.", text)
        ELSE IF ~IsRedirect(status)
        THEN AuthError("Expected Earthdata Login to respond with a redirect, got",
                       <<status>>)
        ELSE IF ~HasHeader(headers, "Location")
        THEN Raised("KeyError")
        ELSE IF AppAuthorization(status, querystring, text)
        THEN AuthError("Authorization required for this application",
                       ResolutionUrl(text))
        ELSE IF QsHas(querystring, "error")
        THEN IF QsHas(querystring, "error_msg")
             THEN AuthError("error_msg", querystring["error_msg"])
             ELSE Raised("KeyError")
        ELSE IF ~QsHas(querystring, "code")
        THEN Raised("KeyError")
        ELSE NoError

\* mutant: the answer to the token POST is not checked
Step3Error_Unchecked(status, body) == NoError

\* the token POST: the exception raised on the answer, or NoError
Step3Error(status, body) ==
    IF ~Ok(status) THEN Raised("HTTPError")
    ELSE IF ~body.json THEN Raised("JSONDecodeError")
    ELSE IF ~HasHeader(body.obj, "access_token") THEN Raised("KeyError")
    ELSE NoError

\* mutant: every request of the login carries the credentials
Request_AlwaysAuth(req, auth) == [req |-> req, auth |-> <<username, password>>]

\* a request of the login: which one, and its HTTP basic authentication
Request(req, auth) == [req |-> req, auth |-> auth]

\* allow_redirects of a request of the login: False is passed for the two
\* GETs, and requests.post follows redirects by default
AllowRedirects(req) == req = "token"

\* an answer: status, headers, text (a token sequence) and, for the token
\* endpoint, the body
Response(status, headers, text, body) ==
    [status |-> status, headers |-> headers, text |-> text, body |-> body]
NoBody == [json |-> FALSE, obj |-> {}]
NoResponse == Response(0, {}, <<>>, NoBody)

\* GET {auth_endpoint}/ without following redirects
AuthorizeRequest ==
    /\ pc = "login"
    /\ \E status \in Step1Status, headers \in Step1Headers :
         LET e == Step1Error(status, headers)
         IN  /\ sent' = Append(sent, Request("authorize", <<>>))
             /\ response' = Response(status, headers, <<>>, NoBody)
             /\ IF e.type = "None"
                THEN /\ edl_url' = HeaderGet(headers, "Location", <<>>)
                     /\ pc' = "edl"
                     /\ err' = err
                ELSE /\ err' = e
                     /\ pc' = "failed"
                     /\ edl_url' = edl_url
    /\ UNCHANGED <<code, token, poolVars, fileVars, run, envVars, csvVars,
                   sessionVars, mkdirVars>>

\* GET edl_url with HTTP basic authentication, without following redirects
EdlRequest ==
    /\ pc = "edl"
    /\ \E status \in Step2Status, headers \in Step2Headers, text \in Step2Texts :
         LET e == Step2Error(status, headers, text)
         IN  /\ sent' = Append(sent, Request("edl", <<username, password>>))
             /\ response' = Response(status, headers, text, NoBody)
             /\ IF e.type = "None"
                THEN /\ code' = parse_qs(UrlQuery(HeaderGet(headers, "Location",
                                                            <<>>)))["code"]
                     /\ pc' = "token"
                     /\ err' = err
                ELSE /\ err' = e
                     /\ pc' = "failed"
                     /\ code' = code
             /\ edl_url' = IF e.type = "None" THEN edl_url ELSE <<>>
    /\ UNCHANGED <<token, poolVars, fileVars, run, envVars, csvVars,
                   sessionVars, mkdirVars>>

\* POST {auth_endpoint}/token with the code; get_auth_token returns
TokenRequest ==
    /\ pc = "token"
    /\ \E status \in Step3Status, body \in TokenBodies(grant) :
         LET e == Step3Error(status, body)
         IN  /\ sent' = Append(sent, Request("token", <<>>))
             /\ response' = Response(status, {}, <<>>, body)
             /\ IF e.type = "None"
                THEN /\ token' = HeaderGet(body.obj, "access_token", None)
                     /\ pc' = "pool"
                     /\ err' = err
                ELSE /\ err' = e
                     /\ pc' = "failed"
                     /\ token' = token
    /\ edl_url' = <<>>
    /\ code' = {}
    /\ UNCHANGED <<poolVars, fileVars, run, envVars, csvVars, sessionVars,
                   mkdirVars>>

\* ------------------------------------------------------- CsdaClient.login

\* the client classes: CsdapClient of csdap_bulk_download.csdap, which cli
\* uses, and the two CsdaClient classes, which keep a requests.Session
SessionClients == {"csda_client", "csdap_bulk_download.client"}
Clients == {"CsdapClient"} \cup SessionClients

\* headers = {"authorization": f"Bearer {token}"} of download_file
BearerHeader(access_token) == <<"Bearer", " ", access_token>>

\* what login stores in session.headers["Authorization"]
SessionHeader(class, access_token) ==
    IF class = "csdap_bulk_download.client"
    THEN <<"Bearer", ":", " ", access_token>>
    ELSE <<"Bearer", " ", access_token>>

\* step 1 goes through CsdaClient.request, which calls raise_for_status
SessionStep1Error(status, headers) ==
    IF ~Ok(status) THEN Raised("HTTPError") ELSE Step1Error(status, headers)

\* step 2 has no test of response.ok before the test for a redirect
SessionStep2Error(status, headers, text) ==
    IF ~IsRedirect(status)
    THEN AuthError("Expected Earthdata Login to respond with a redirect, got",
                   <<status>>)
    ELSE Step2Error(status, headers, text)

\* the Authorization header a request of the session goes out with
SessionSends == IF session = <<>> THEN {} ELSE {session}

\* self._request_auth("/", method="GET", ..., allow_redirects=False)
SessionAuthorize ==
    /\ pc = "login"
    /\ client \in SessionClients
    /\ \E status \in Step1Status, headers \in Step1Headers :
         LET e == SessionStep1Error(status, headers)
         IN  /\ sent' = Append(sent, Request("authorize", <<>>))
             /\ response' = Response(status, headers, <<>>, NoBody)
             /\ IF e.type = "None"
                THEN /\ edl_url' = HeaderGet(headers, "Location", <<>>)
                     /\ pc' = "edl"
                     /\ err' = err
                ELSE /\ err' = e
                     /\ pc' = "failed"
                     /\ edl_url' = edl_url
    /\ authorization' = authorization \cup SessionSends
    /\ UNCHANGED <<code, token, poolVars, fileVars, run, envVars, csvVars,
                   session, mkdirVars>>

\* self.session.request(url=edl_url, method="GET", auth=HTTPBasicAuth(...))
SessionEdl ==
    /\ pc = "edl"
    /\ client \in SessionClients
    /\ \E status \in Step2Status, headers \in Step2Headers, text \in Step2Texts :
         LET e == SessionStep2Error(status, headers, text)
         IN  /\ sent' = Append(sent, Request("edl", <<username, password>>))
             /\ response' = Response(status, headers, text, NoBody)
             /\ IF e.type = "None"
                THEN /\ code' = parse_qs(UrlQuery(HeaderGet(headers, "Location",
                                                            <<>>)))["code"]
                     /\ pc' = "token"
                     /\ err' = err
                ELSE /\ err' = e
                     /\ pc' = "failed"
                     /\ code' = code
             /\ edl_url' = IF e.type = "None" THEN edl_url ELSE <<>>
    /\ authorization' = authorization \cup SessionSends
    /\ UNCHANGED <<token, poolVars, fileVars, run, envVars, csvVars, session,
                   mkdirVars>>

\* self._request_auth("/token", method="POST", data={"code": code}) and
\* self.session.headers["Authorization"] = ...
SessionToken ==
    /\ pc = "token"
    /\ client \in SessionClients
    /\ \E status \in Step3Status, body \in TokenBodies(grant) :
         LET e == Step3Error(status, body)
             access_token == HeaderGet(body.obj, "access_token", None)
         IN  /\ sent' = Append(sent, Request("token", <<>>))
             /\ response' = Response(status, {}, <<>>, body)
             /\ IF e.type = "None"
                THEN /\ token' = access_token
                     /\ session' = SessionHeader(client, access_token)
                     /\ pc' = "session"
                     /\ err' = err
                ELSE /\ err' = e
                     /\ pc' = "failed"
                     /\ token' = token
                     /\ session' = session
    /\ authorization' = authorization \cup SessionSends
    /\ edl_url' = <<>>
    /\ code' = {}
    /\ UNCHANGED <<poolVars, fileVars, run, envVars, csvVars, mkdirVars>>

\* CsdaClient.request after login: self.session.request(...) sends the
\* headers of the session
SessionRequest ==
    /\ pc = "session"
    /\ client \in SessionClients
    /\ authorization' = authorization \cup SessionSends
    /\ UNCHANGED <<pc, loginVars, poolVars, fileVars, run, envVars, csvVars,
                   session, mkdirVars>>

\* --------------------------------------------------------------- the files

\* base / scene_id / asset_type of the rows
P1 == <<"c1", "s1", "a1">>
P2 == <<"c1", "s2", "a1">>
P3 == <<"c1", "s3", "a1">>
Paths == {P1, P2, P3}

\* the path of the i-th row that passes the filters: the input lists the
\* three assets in turn, so that every fourth row repeats a path
RowPath(i) ==
    CASE i % 3 = 1 -> P1
      [] i % 3 = 2 -> P2
      [] OTHER -> P3

Tasks == 1..MaxTasks

NoDir == [exists |-> FALSE, files |-> {}]

\* mutant: no test for an earlier download
Populated_Never(dir) == FALSE

\* file_dir.exists() and len(os.listdir(file_dir))
Populated(dir) == dir.exists /\ dir.files # {}

\* whether os.listdir(file_dir) had entries when download_file looked
Look(dir) == IF dir.files # {} THEN "entries" ELSE "no_entries"

\* path.name
PathName(path) == path[Len(path)]

\* the headers the API answers a download of each asset with: none, one
\* that names the file, one that does not
Disposition(path) ==
    CASE path = P2 ->
           {<<"Content-Disposition", <<"attachment; ", "filename=", "scene123.tif">>>>}
      [] path = P3 -> {<<"Content-Disposition", <<"inline">>>>}
      [] OTHER -> {}

\* re.findall("filename=(.+)", disposition): the text after filename=
DispositionFilename(disposition) ==
    LET i == IndexFrom(disposition, "filename=", 1)
    IN  IF i = 0 \/ i = Len(disposition) THEN <<>>
        ELSE <<Slice(disposition, i + 1, Len(disposition) + 1)>>

\* mutant: the Content-Disposition header is not read
Filename_PathName(path, headers) == <<PathName(path)>>

\* the name download_file writes the body under
Filename(path, headers) ==
    LET disposition == HeaderGet(headers, "Content-Disposition", <<>>)
        found == DispositionFilename(disposition)
    IN  IF disposition # <<>> /\ found # <<>>
        THEN found[1]
        ELSE <<PathName(path)>>

\* mutant: the body is written somewhere other than file_dir
Written_Elsewhere(dir, filename, whole) == [dir EXCEPT !.exists = TRUE]

\* filepath.open("wb") and shutil.copyfileobj: the directory afterwards;
\* the file is under its final name whether or not the copy got to the end
Written(dir, filename, whole) ==
    [exists |-> TRUE,
     files |-> { f \in dir.files : f[1] # filename }
                 \cup { <<filename, IF whole THEN "whole" ELSE "truncated">> }]

\* the ways download_file can go past the check: the request raises, the
\* answer is not ok, the body stops in the middle, or the body arrives
Outcomes == {"ConnectionError", "not_ok", "broken_body", "ok"}

\* file_dir after download_file went past the check
After(dir, filename, outcome) ==
    IF outcome \in {"ConnectionError", "not_ok"}
    THEN [dir EXCEPT !.exists = TRUE]
    ELSE Written(dir, filename, outcome = "ok")

\* bodies of an answer that is not ok: the API's JSON object with detail, a
\* JSON object without it, text that is not JSON, and JSON that is not an
\* object (here a JSON string)
FailureDetail ==
    [json |-> TRUE, object |-> TRUE, obj |-> {<<"detail", "not authorized">>},
     text |-> <<"{", "detail", ":", "not authorized", "}">>]
FailureNoDetail ==
    [json |-> TRUE, object |-> TRUE, obj |-> {<<"message", "not found">>},
     text |-> <<"{", "message", ":", "not found", "}">>]
FailureText ==
    [json |-> FALSE, object |-> FALSE, obj |-> {}, text |-> <<"Bad Gateway">>]
FailureNotObject ==
    [json |-> TRUE, object |-> FALSE, obj |-> {},
     text |-> <<"\"", "Internal Server Error", "\"">>]
FailureBodies == {FailureDetail, FailureNoDetail, FailureText, FailureNotObject}

\* response.json()["detail"] raises something other than KeyError and
\* json.JSONDecodeError: a JSON value that is not an object has no string keys
DetailRaises(body) == body.json /\ ~body.object

\* msg: response.json()["detail"], or response.text when that raised KeyError
\* or json.JSONDecodeError
FailedMessage(body) ==
    IF body.json /\ body.object /\ HasHeader(body.obj, "detail")
    THEN <<HeaderGet(body.obj, "detail", "")>>
    ELSE body.text

\* mutant: an answer that is not ok raises (response.raise_for_status())
ResultOf_RaiseForStatus(outcome) ==
    IF outcome = "ok" THEN "Downloaded" ELSE "Raised"

\* what download_file returns (or that it raised) for an outcome
ResultOf(outcome) ==
    CASE outcome = "not_ok" -> IF DetailRaises(failure) THEN "Raised" ELSE "Failed"
      [] outcome = "ok" -> "Downloaded"
      [] OTHER -> "Raised"

\* what the returned string carries: "Failed to download. {msg}" or
\* "Downloaded file to {filepath}"
MessageOf(path, outcome) ==
    CASE outcome = "not_ok" /\ ~DetailRaises(failure) -> FailedMessage(failure)
      [] outcome = "ok" -> path \o Filename(path, Disposition(path))
      [] OTHER -> <<>>

\* --------------------------------------------- file_dir.mkdir(parents=True)

\* the directory a path is in, and a path with the directories above it
\* (<<>> is out_dir)
Parent(dir) == SubSeq(dir, 1, Len(dir) - 1)
Prefixes(path) == { SubSeq(path, 1, n) : n \in 0..Len(path) }

\* os.mkdir(dir) finds the directory above dir (out_dir is in a directory
\* that exists)
ParentExists(dir) == dir = <<>> \/ Parent(dir) \in tree

\* a call Path(dir).mkdir(parents=..., exist_ok=...) still to be made
Frame(dir, parents, exist_ok) ==
    [dir |-> dir, parents |-> parents, exist_ok |-> exist_ok]

\* mutant: mkdir without exist_ok
MkdirRaises_NoExistOk(exist_ok, is_dir) == TRUE

\* Path.mkdir on an OSError of os.mkdir: if not exist_ok or not is_dir: raise
MkdirRaises(exist_ok, is_dir) == ~exist_ok \/ ~is_dir

\* the tasks inside file_dir.mkdir
Making == { t \in Tasks : mk[t] = "mkdir" }

\* download_file gets to file_dir.mkdir(parents=True, exist_ok=True): the
\* directory was missing or empty at the check before it
MkdirCall(t) ==
    /\ mk[t] = ""
    /\ Cardinality(Making) < max_workers
    /\ mk' = [mk EXCEPT ![t] = "mkdir"]
    /\ frames' = [frames EXCEPT ![t] = <<Frame(RowPath(t), TRUE, TRUE)>>]
    /\ absent' = [absent EXCEPT ![t] = Prefixes(RowPath(t)) \ tree]
    /\ UNCHANGED <<pc, envVars, csvVars, loginVars, poolVars, fileVars,
                   sessionVars, tree, met, run>>

\* one os.mkdir of Path.mkdir: the directory is created; or it exists, which
\* exist_ok lets pass; or the directory above is missing, and with parents
\* the call goes on with parent.mkdir(parents=True, exist_ok=True) and then
\* mkdir(parents=False, exist_ok=exist_ok) again
OsMkdir(t) ==
    /\ mk[t] = "mkdir"
    /\ LET f == Head(frames[t])
           rest == Tail(frames[t])
           back == IF rest = <<>> THEN "made" ELSE "mkdir"
       IN  IF f.dir \in tree
           THEN /\ met' = [met EXCEPT ![t] = @ \cup {f.dir}]
                /\ tree' = tree
                /\ IF MkdirRaises(f.exist_ok, TRUE)
                   THEN /\ mk' = [mk EXCEPT ![t] = "FileExistsError"]
                        /\ frames' = [frames EXCEPT ![t] = <<>>]
                   ELSE /\ mk' = [mk EXCEPT ![t] = back]
                        /\ frames' = [frames EXCEPT ![t] = rest]
           ELSE IF ~ParentExists(f.dir)
           THEN /\ UNCHANGED <<tree, met>>
                /\ IF f.parents
                   THEN /\ mk' = mk
                        /\ frames' = [frames EXCEPT ![t] =
                                        <<Frame(Parent(f.dir), TRUE, TRUE),
                                          Frame(f.dir, FALSE, f.exist_ok)>>
                                        \o rest]
                   ELSE /\ mk' = [mk EXCEPT ![t] = "FileNotFoundError"]
                        /\ frames' = [frames EXCEPT ![t] = <<>>]
           ELSE /\ tree' = tree \cup {f.dir}
                /\ met' = met
                /\ mk' = [mk EXCEPT ![t] = back]
                /\ frames' = [frames EXCEPT ![t] = rest]
    /\ UNCHANGED <<pc, envVars, csvVars, loginVars, poolVars, fileVars,
                   sessionVars, absent, run>>

\* ---------------------------------------------------------------- the pool

\* Future._state; a future is RUNNING from the moment a worker thread takes
\* its work item until set_result or set_exception
Finished(f) == phase[f] \in {"callbacks", "done"}
Running(f) == phase[f] \in {"check", "download", "set_result"}

\* the work items a worker thread holds: it is busy until the callbacks of
\* its future have run
Held == { t \in Tasks : Running(t) \/ phase[t] = "callbacks" }
Queued == { t \in Tasks : phase[t] = "PENDING" }

\* mutant: log_results lets the exception of future.result() escape
Logged_ValuesOnly(f) ==
    IF f \in future_to_path /\ result[f] # "Raised"
    THEN [reported EXCEPT ![f] = @ + 1]
    ELSE reported

\* mutant: log_results reads the path and leaves the entry in the dictionary
Popped_Kept(f) == future_to_path

\* log_results(future): the dictionary and the log afterwards
Popped(f) == future_to_path \ {f}
Logged(f) ==
    IF f \in future_to_path
    THEN [reported EXCEPT ![f] = @ + 1]
    ELSE reported

\* the backpressure test after a submission
MustWait == Cardinality(future_to_path) >= 2 * max_workers

\* mutant: the backpressure wait returns when every future is done
FirstCompleted_All(fs) == \A f \in fs : phase[f] \in {"callbacks", "done"}

\* mutant: the backpressure wait only counts a future that finishes after
\* the call, not one that was done before it
FirstCompleted_NewOnly(fs) == \E f \in fs : phase[f] = "callbacks"

\* FIRST_COMPLETED: some future of the call is done (or there is none)
FirstCompleted(fs) == fs = {} \/ \E f \in fs : Finished(f)

\* mutant: the last wait returns when the first future is done
AllCompleted_First(fs) == fs = {} \/ \E f \in fs : phase[f] \in {"callbacks", "done"}

\* ALL_COMPLETED: every future of the call is done
AllCompleted(fs) == \A f \in fs : Finished(f)

\* with ThreadPoolExecutor(max_workers=concurrency) as executor
CreatePool ==
    /\ pc = "pool"
    /\ pc' = "loop"
    /\ UNCHANGED <<loginVars, poolVars, fileVars, run, envVars, csvVars,
                   sessionVars, mkdirVars>>

\* a row passes the filters: future = executor.submit(csdap.download_file,
\* ...) and future_to_path[future] = path
Submit ==
    /\ pc = "loop"
    /\ row < MaxTasks
    /\ run = 2 => row < csv_rows
    /\ row' = row + 1
    /\ phase' = [phase EXCEPT ![row + 1] = "PENDING"]
    /\ future_to_path' = future_to_path \cup {row + 1}
    /\ pc' = "add_done_callback"
    /\ UNCHANGED <<loginVars, max_workers, started, csv_rows, callbacks,
                   waitset, complete, fileVars, run, envVars, csvVars,
                   sessionVars, mkdirVars>>

\* the two statements of Submit one at a time, a worker thread being free to
\* run the work item in between: future = executor.submit(...)
ExecutorSubmit ==
    /\ pc = "loop"
    /\ row < MaxTasks
    /\ run = 2 => row < csv_rows
    /\ row' = row + 1
    /\ phase' = [phase EXCEPT ![row + 1] = "PENDING"]
    /\ pc' = "set_path"
    /\ UNCHANGED <<loginVars, max_workers, started, csv_rows, future_to_path,
                   callbacks, waitset, complete, fileVars, run, envVars,
                   csvVars, sessionVars, mkdirVars>>

\* future_to_path[future] = path
SetPath ==
    /\ pc = "set_path"
    /\ future_to_path' = future_to_path \cup {row}
    /\ pc' = "add_done_callback"
    /\ UNCHANGED <<loginVars, max_workers, started, row, csv_rows, phase,
                   callbacks, waitset, complete, fileVars, run, envVars,
                   csvVars, sessionVars, mkdirVars>>

\* future.add_done_callback(log_results): a future that is already done runs
\* the callback at once, in the main thread
AddDoneCallback ==
    /\ pc = "add_done_callback"
    /\ IF Finished(row)
       THEN /\ future_to_path' = Popped(row)
            /\ reported' = Logged(row)
            /\ callbacks' = callbacks
       ELSE /\ callbacks' = callbacks \cup {row}
            /\ UNCHANGED <<future_to_path, reported>>
    /\ pc' = "check_len"
    /\ UNCHANGED <<loginVars, max_workers, started, row, csv_rows, phase,
                   waitset, complete, seen, answer, result, msg, requests,
                   bearer, disk, run, envVars, csvVars, sessionVars,
                   mkdirVars>>

\* if len(future_to_path) >= 2 * executor._max_workers: wait(future_to_path, ...)
CheckLen ==
    /\ pc = "check_len"
    /\ IF MustWait
       THEN /\ waitset' = future_to_path
            /\ pc' = "wait_first"
       ELSE /\ waitset' = waitset
            /\ pc' = "loop"
    /\ UNCHANGED <<loginVars, max_workers, started, row, csv_rows, phase,
                   future_to_path, callbacks, complete, fileVars, run, envVars,
                   csvVars, sessionVars, mkdirVars>>

\* the two statements of CheckLen one at a time: the test of
\* len(future_to_path), and the call of wait, which copies the keys it is
\* given (fs = set(fs)); callbacks of the worker threads may pop in between
LenTest ==
    /\ pc = "check_len"
    /\ pc' = IF MustWait THEN "wait_call" ELSE "loop"
    /\ UNCHANGED <<loginVars, poolVars, fileVars, run, envVars, csvVars,
                   sessionVars, mkdirVars>>

WaitCall ==
    /\ pc = "wait_call"
    /\ waitset' = future_to_path
    /\ pc' = "wait_first"
    /\ UNCHANGED <<loginVars, max_workers, started, row, csv_rows, phase,
                   future_to_path, callbacks, complete, fileVars, run, envVars,
                   csvVars, sessionVars, mkdirVars>>

\* wait(..., return_when=FIRST_COMPLETED) returns
WaitFirst ==
    /\ pc = "wait_first"
    /\ FirstCompleted(waitset)
    /\ waitset' = {}
    /\ pc' = "loop"
    /\ UNCHANGED <<loginVars, max_workers, started, row, csv_rows, phase,
                   future_to_path, callbacks, complete, fileVars, run, envVars,
                   csvVars, sessionVars, mkdirVars>>

\* the rows of the last CSV are exhausted: wait(future_to_path, ALL_COMPLETED)
EndOfInput ==
    /\ pc = "loop"
    /\ run = 2 => row = csv_rows
    /\ csv_rows' = row
    /\ waitset' = future_to_path
    /\ pc' = "wait_all"
    /\ UNCHANGED <<loginVars, max_workers, started, row, phase, future_to_path,
                   callbacks, complete, fileVars, run, envVars, csvVars,
                   sessionVars, mkdirVars>>

\* wait(..., return_when=ALL_COMPLETED) returns; click.echo("Complete.")
WaitAll ==
    /\ pc = "wait_all"
    /\ AllCompleted(waitset)
    /\ waitset' = {}
    /\ complete' = TRUE
    /\ pc' = "exit"
    /\ UNCHANGED <<loginVars, max_workers, started, row, csv_rows, phase,
                   future_to_path, callbacks, fileVars, run, envVars, csvVars,
                   sessionVars, mkdirVars>>

\* leaving the with block: executor.shutdown(wait=True) joins the workers
Shutdown ==
    /\ pc = "exit"
    /\ Queued = {}
    /\ Held = {}
    /\ pc' = "done"
    /\ UNCHANGED <<loginVars, poolVars, fileVars, run, envVars, csvVars,
                   sessionVars, mkdirVars>>

\* ------------------------------------------------------ the worker threads

\* mutant: the executor starts a thread for every work item
CanTake_NoLimit(t) ==
    /\ t \in Queued
    /\ \A u \in Queued : t <= u

\* a free worker thread takes the oldest work item of the queue
CanTake(t) ==
    /\ t \in Queued
    /\ \A u \in Queued : t <= u
    /\ Cardinality(Held) < max_workers

TakeWork(t) ==
    /\ CanTake(t)
    /\ phase' = [phase EXCEPT ![t] = "check"]
    /\ started' = [started EXCEPT ![t] = @ + 1]
    /\ UNCHANGED <<pc, loginVars, max_workers, row, csv_rows, future_to_path,
                   callbacks, waitset, complete, fileVars, run, envVars,
                   csvVars, sessionVars, mkdirVars>>

\* download_file: skip if file_dir exists and has entries
Check(t) ==
    /\ phase[t] = "check"
    /\ LET dir == disk[RowPath(t)]
       IN  /\ seen' = [seen EXCEPT ![t] = Look(dir)]
           /\ IF Populated(dir)
              THEN /\ result' = [result EXCEPT ![t] = "Skipped"]
                   /\ phase' = [phase EXCEPT ![t] = "set_result"]
              ELSE /\ result' = result
                   /\ phase' = [phase EXCEPT ![t] = "download"]
    /\ UNCHANGED <<pc, loginVars, max_workers, started, row, csv_rows,
                   future_to_path, callbacks, waitset, complete, answer, msg,
                   reported, requests, bearer, disk, run, envVars, csvVars,
                   sessionVars, mkdirVars>>

\* download_file past the check: file_dir.mkdir(parents=True, exist_ok=True),
\* the GET with the bearer header and, on an ok answer, the copy of the body
\* to file_dir / filename
Download(t) ==
    /\ phase[t] = "download"
    /\ t # stalled
    /\ LET path == RowPath(t)
       IN  \E outcome \in Outcomes :
             /\ requests' = [requests EXCEPT ![t] = @ + 1]
             /\ bearer' = bearer \cup {token}
             /\ authorization' = authorization \cup {BearerHeader(token)}
             /\ tree' = tree \cup Prefixes(path)
             /\ disk' = [disk EXCEPT ![path] =
                           After(@, Filename(path, Disposition(path)), outcome)]
             /\ answer' = [answer EXCEPT ![t] = outcome]
             /\ result' = [result EXCEPT ![t] = ResultOf(outcome)]
             /\ msg' = [msg EXCEPT ![t] = MessageOf(path, outcome)]
    /\ phase' = [phase EXCEPT ![t] = "set_result"]
    /\ UNCHANGED <<pc, loginVars, max_workers, started, row, csv_rows,
                   future_to_path, callbacks, waitset, complete, seen,
                   reported, run, envVars, csvVars, session, frames, mk, met,
                   absent>>

\* Future.set_result / set_exception: the future is FINISHED and waiters wake
SetResult(t) ==
    /\ phase[t] = "set_result"
    /\ phase' = [phase EXCEPT ![t] = "callbacks"]
    /\ UNCHANGED <<pc, loginVars, max_workers, started, row, csv_rows,
                   future_to_path, callbacks, waitset, complete, fileVars, run,
                   envVars, csvVars, sessionVars, mkdirVars>>

\* Future._invoke_callbacks: log_results runs in the worker thread if it
\* was registered before the future finished; the thread is free again
InvokeCallbacks(t) ==
    /\ phase[t] = "callbacks"
    /\ IF t \in callbacks
       THEN /\ future_to_path' = Popped(t)
            /\ reported' = Logged(t)
            /\ callbacks' = callbacks \ {t}
       ELSE UNCHANGED <<future_to_path, reported, callbacks>>
    /\ phase' = [phase EXCEPT ![t] = "done"]
    /\ UNCHANGED <<pc, loginVars, max_workers, started, row, csv_rows, waitset,
                   complete, seen, answer, result, msg, requests, bearer, disk,
                   run, envVars, csvVars, sessionVars, mkdirVars>>

\* ---------------------------------------------------------- the input files

\* the header rows of the input files: the columns of the current format, of
\* the legacy format, of both, and a header without either id column
Fieldnames ==
    { {"collection_id", "scene_id", "asset_type"},
      {"order_id", "scene_id", "asset_type"},
      {"order_id", "collection_id", "scene_id", "asset_type"},
      {"scene_id", "asset_type"} }

\* the value of a column in the j-th row below the header
Value(field, j) ==
    CASE field = "order_id" -> "o1"
      [] field = "collection_id" -> "c1"
      [] field = "scene_id" ->
           IF j = 1 THEN "s1" ELSE IF j = 2 THEN "S2" ELSE "s3"
      [] OTHER -> IF j % 2 = 1 THEN "A1" ELSE "b1"

\* csv.DictReader: every row is a dictionary whose keys are the fieldnames of
\* the header row
DictReader(fieldnames, n) ==
    [j \in 1..n |-> [f \in fieldnames |-> Value(f, j)]]

Csvs ==
    { DictReader(fieldnames, n) : fieldnames \in Fieldnames, n \in 0..MaxRows }

\* input-csvs is required: there is at least one file
Inputs == UNION { [1..k -> Csvs] : k \in 1..MaxCsvs }

\* str.lower
Lower(v) ==
    CASE v = "S2" -> "s2"
      [] v = "A1" -> "a1"
      [] OTHER -> v

\* mutant: api_version is set once, before the first file
FirstVersion_Once(version) == IF version = 0 THEN 2 ELSE version

\* api_version = 2 at the start of each input_csv
FirstVersion(version) == 2

\* if "order_id" in row and api_version == 2
Legacy(r, version) == "order_id" \in DOMAIN r /\ version = 2

\* the column of base: row["order_id"] if api_version == 1 else
\* row["collection_id"]
BaseColumn(version) == IF version = 1 THEN "order_id" ELSE "collection_id"

\* a row is left out by --scene_id or --asset_type
Filtered(r) ==
    \/ scene_ids # {} /\ Lower(r["scene_id"]) \notin scene_ids
    \/ asset_types # {} /\ Lower(r["asset_type"]) \notin asset_types

\* f"v{endpoint_version}/download" and the url of download_file
DownloadUrl(endpoint_version, path) ==
    <<"v", IF endpoint_version = 1 THEN "1" ELSE "2", "/download/">> \o path

\* the arguments of executor.submit(csdap.download_file, ...) for a row, and
\* the url download_file requests for them
Task(path, endpoint_version) ==
    [csv |-> csv, line |-> line + 1, path |-> path,
     endpoint_version |-> endpoint_version,
     url |-> DownloadUrl(endpoint_version, path)]

\* the rows of input_csv are exhausted, or the loop has not begun
AtEndOfCsv == IF csv = 0 THEN TRUE ELSE line = Len(input_csvs[csv])

\* for input_csv in input_csvs: api_version = 2
OpenCsv ==
    /\ pc = "loop"
    /\ AtEndOfCsv
    /\ csv < Len(input_csvs)
    /\ csv' = csv + 1
    /\ line' = 0
    /\ api_version' = FirstVersion(api_version)
    /\ UNCHANGED <<pc, envVars, loginVars, poolVars, fileVars, sessionVars,
                   mkdirVars, input_csvs, scene_ids, asset_types, warnings,
                   submitted, run>>

\* one turn of for row in csv.DictReader(input_csv): the legacy test, the
\* path, the filters and the submit call
ReadRow ==
    /\ pc = "loop"
    /\ csv >= 1
    /\ line < Len(input_csvs[csv])
    /\ LET r == input_csvs[csv][line + 1]
           legacy == Legacy(r, api_version)
           version == IF legacy THEN 1 ELSE api_version
       IN  /\ line' = line + 1
           /\ api_version' = version
           /\ warnings' = IF legacy THEN Append(warnings, csv) ELSE warnings
           /\ IF BaseColumn(version) \notin DOMAIN r
              THEN /\ err' = Raised("KeyError")
                   /\ pc' = "failed"
                   /\ submitted' = submitted
              ELSE LET path == <<r[BaseColumn(version)], r["scene_id"],
                                 r["asset_type"]>>
                   IN  /\ submitted' = IF Filtered(r) THEN submitted
                                        ELSE Append(submitted, Task(path, version))
                       /\ UNCHANGED <<pc, err>>
    /\ UNCHANGED <<envVars, sent, response, edl_url, code, token, poolVars,
                   fileVars, sessionVars, mkdirVars, input_csvs, scene_ids,
                   asset_types, csv, run>>

\* the last input_csv is exhausted: the loop over input_csvs ends
ReadAll ==
    /\ pc = "loop"
    /\ AtEndOfCsv
    /\ csv = Len(input_csvs)
    /\ pc' = "wait_all"
    /\ UNCHANGED <<envVars, loginVars, poolVars, fileVars, sessionVars,
                   mkdirVars, csvVars, run>>

\* ------------------------------------------------------ the specification

\* nothing was submitted and out_dir has no directory yet
Fresh ==
    /\ edl_url = <<>>
    /\ code = {}
    /\ err = NoError
    /\ max_workers \in 1..MaxConcurrency
    /\ row = 0
    /\ started = [t \in Tasks |-> 0]
    /\ csv_rows = 0
    /\ phase = [t \in Tasks |-> "NONE"]
    /\ future_to_path = {}
    /\ callbacks = {}
    /\ waitset = {}
    /\ seen = [t \in Tasks |-> ""]
    /\ answer = [t \in Tasks |-> ""]
    /\ result = [t \in Tasks |-> ""]
    /\ msg = [t \in Tasks |-> <<>>]
    /\ reported = [t \in Tasks |-> 0]
    /\ requests = [t \in Tasks |-> 0]
    /\ bearer = {}
    /\ disk = [p \in Paths |-> NoDir]
    /\ session = <<>>
    /\ authorization = {}
    /\ tree = {}
    /\ frames = [t \in Tasks |-> <<>>]
    /\ mk = [t \in Tasks |-> ""]
    /\ met = [t \in Tasks |-> {}]
    /\ absent = [t \in Tasks |-> {}]
    /\ complete = FALSE
    /\ run = 1

\* the state when cli starts; the API grants one of access_tokens
InitWith(access_tokens) ==
    /\ pc = "login"
    /\ grant \in access_tokens
    /\ sent = <<>>
    /\ response = NoResponse
    /\ token = None
    /\ Fresh

\* no download hangs, and an answer that is not ok has the API's JSON body
NoStall == stalled = 0
UsualFailure == failure = FailureDetail
\* cli works with CsdapClient
Cli == client = "CsdapClient"

\* the reader of the input files before the loop over input_csvs
Unread ==
    /\ csv = 0
    /\ line = 0
    /\ api_version = 0
    /\ warnings = <<>>
    /\ submitted = <<>>

\* the rows that pass the filters are given by RowPath, under endpoint
\* version 2: the files themselves are left out
Rows == input_csvs = <<>> /\ scene_ids = {} /\ asset_types = {} /\ Unread

Init == InitWith({"tokA"}) /\ NoStall /\ UsualFailure /\ Cli /\ Rows

Login ==
    \/ AuthorizeRequest
    \/ EdlRequest
    \/ TokenRequest

Pool ==
    \/ CreatePool
    \/ Submit
    \/ AddDoneCallback
    \/ CheckLen
    \/ WaitFirst
    \/ EndOfInput
    \/ WaitAll
    \/ Shutdown
    \/ \E t \in Tasks : TakeWork(t)
    \/ \E t \in Tasks : Check(t)
    \/ \E t \in Tasks : Download(t)
    \/ \E t \in Tasks : SetResult(t)
    \/ \E t \in Tasks : InvokeCallbacks(t)

Next == Login \/ Pool

\* one run of cli
Spec == Init /\ [][Next]_vars

\* the login alone, against an API that may grant any of the tokens
InitLogin == InitWith(Tokens) /\ NoStall /\ UsualFailure /\ Cli /\ Rows
SpecLogin == InitLogin /\ [][Login]_vars

\* the login when every request it issues is answered
SpecLoginLive == InitLogin /\ [][Login]_vars /\ WF_vars(Login)

\* the command is repeated, with the same input and --out-dir, after a run
\* in which every task was Downloaded
AllDownloaded == \A t \in 1..row : result[t] = "Downloaded"

Rerun ==
    /\ pc = "done"
    /\ run = 1
    /\ AllDownloaded
    /\ run' = 2
    /\ pc' = "login"
    /\ sent' = <<>>
    /\ response' = NoResponse
    /\ token' = None
    /\ row' = 0
    /\ started' = [t \in Tasks |-> 0]
    /\ phase' = [t \in Tasks |-> "NONE"]
    /\ seen' = [t \in Tasks |-> ""]
    /\ answer' = [t \in Tasks |-> ""]
    /\ result' = [t \in Tasks |-> ""]
    /\ msg' = [t \in Tasks |-> <<>>]
    /\ reported' = [t \in Tasks |-> 0]
    /\ requests' = [t \in Tasks |-> 0]
    /\ bearer' = {}
    /\ authorization' = {}
    /\ complete' = FALSE
    /\ UNCHANGED <<envVars, csvVars, session, edl_url, code, err, max_workers,
                   csv_rows, future_to_path, callbacks, waitset, disk,
                   mkdirVars>>

NextRerun == Next \/ Rerun
SpecRerun == Init /\ [][NextRerun]_vars

\* one download hangs: the request of task stalled is never answered, and
\* every other download either arrives or raises. The main thread and every
\* worker thread keep being scheduled.
InitStall ==
    InitWith({"tokA"}) /\ stalled \in Tasks /\ UsualFailure /\ Cli /\ Rows

StallOutcomes == {"ok", "ConnectionError"}

NextStall == Next /\ \A t \in Tasks : answer'[t] \in {""} \cup StallOutcomes

Main ==
    \/ Login
    \/ CreatePool
    \/ Submit
    \/ AddDoneCallback
    \/ CheckLen
    \/ WaitFirst
    \/ EndOfInput
    \/ WaitAll
    \/ Shutdown

Worker(t) ==
    \/ TakeWork(t)
    \/ Check(t)
    \/ Download(t)
    \/ SetResult(t)
    \/ InvokeCallbacks(t)

Fairness == WF_vars(Main) /\ \A t \in Tasks : WF_vars(Worker(t))

SpecStall == InitStall /\ [][NextStall]_vars /\ Fairness

\* the API answers a failed download with any of the bodies
InitFailure ==
    InitWith({"tokA"}) /\ NoStall /\ failure \in FailureBodies /\ Cli /\ Rows
SpecFailure == InitFailure /\ [][Next]_vars

\* a CsdaClient logs in and is then used for requests
InitSession ==
    /\ InitWith(Tokens) /\ NoStall /\ UsualFailure /\ Rows
    /\ client \in SessionClients

NextSession ==
    \/ SessionAuthorize
    \/ SessionEdl
    \/ SessionToken
    \/ SessionRequest

SpecSession == InitSession /\ [][NextSession]_vars

\* the main thread statement by statement: submit, future_to_path[future] =
\* path and add_done_callback are three steps, the test of len(future_to_path)
\* and the call of wait are two, and the worker threads run between any two
\* of them
Producer ==
    \/ Login
    \/ CreatePool
    \/ ExecutorSubmit
    \/ SetPath
    \/ AddDoneCallback
    \/ LenTest
    \/ WaitCall
    \/ WaitFirst
    \/ EndOfInput
    \/ WaitAll
    \/ Shutdown

\* a download arrives or raises
NextSteps ==
    /\ Producer \/ \E t \in Tasks : Worker(t)
    /\ \A t \in Tasks : answer'[t] \in {""} \cup StallOutcomes

SpecSteps == Init /\ [][NextSteps]_vars

\* every download_file call finishes, and the main thread and every worker
\* thread keep being scheduled
SpecTerminates ==
    /\ Init
    /\ [][NextSteps]_vars
    /\ WF_vars(Producer)
    /\ \A t \in Tasks : WF_vars(Worker(t))

\* the loop over the input files alone, after a login that succeeded and
\* with the pool created: the submit calls are recorded and not run
InitCsv ==
    /\ pc = "loop"
    /\ grant = "tokA"
    /\ token = grant
    /\ sent = <<Request("authorize", <<>>),
                Request("edl", <<username, password>>),
                Request("token", <<>>)>>
    /\ response = Response(200, {}, <<>>,
                           [json |-> TRUE, obj |-> {<<"access_token", grant>>}])
    /\ Fresh /\ max_workers = 1
    /\ NoStall /\ UsualFailure /\ Cli
    /\ input_csvs \in Inputs
    /\ scene_ids \in {{}, {"s2"}}
    /\ asset_types \in {{}, {"a1"}}
    /\ Unread

NextCsv ==
    \/ OpenCsv
    \/ ReadRow
    \/ ReadAll

SpecCsv == InitCsv /\ [][NextCsv]_vars

\* the mkdir calls of the worker threads, step by step
NextMkdir ==
    \/ \E t \in Tasks : MkdirCall(t)
    \/ \E t \in Tasks : OsMkdir(t)

SpecMkdir == Init /\ [][NextMkdir]_vars

\* ------------------------------------------------------------- the claims

\* tasks submitted whose download has not finished: queued, or in
\* download_file
Unfinished == { t \in Tasks : phase[t] \in {"PENDING", "check", "download"} }

\* C1: at every instant the number of tasks submitted and not yet finished
\* is at most 2 x concurrency.
C1_OutstandingAtMostTwiceConcurrency ==
    Cardinality(Unfinished) <= 2 * max_workers

\* C2: every submitted task is reported by log_results exactly once by the
\* time the executor has shut down, whether it returned or raised, and no
\* task is ever reported twice or before its future is done.
C2_ReportedExactlyOnce ==
    /\ \A t \in Tasks : reported[t] <= 1
    /\ \A t \in Tasks : reported[t] = 1 => Finished(t) /\ t <= row
    /\ pc = "done" => \A t \in 1..row : reported[t] = 1

C2_Witness ==
    /\ pc = "done"
    /\ row = MaxTasks
    /\ \E t \in Tasks : result[t] = "Raised" /\ reported[t] = 1
    /\ \E t \in Tasks : result[t] = "Downloaded" /\ reported[t] = 1

\* rows whose path no other submitted row has
Alone(t) == \A u \in 1..row : u # t => RowPath(u) # RowPath(t)

\* C3: a failed download (an exception, or an answer that is not ok) shows
\* only in that task's own result: every task gets the result its own answer
\* gives (or Skipped, when its directory had entries), no exception leaves
\* the pool, and once the pool has shut down every submitted task has run
\* and was reported; rows with paths of their own were all requested, so one
\* failed answer among ok answers gives one Failed and Downloaded for the rest.
C3_FailureIsolated ==
    /\ \A t \in Tasks :
         /\ answer[t] = "ok" => result[t] = "Downloaded"
         /\ answer[t] = "not_ok" => result[t] = "Failed"
         /\ answer[t] \in {"ConnectionError", "broken_body"} => result[t] = "Raised"
         /\ answer[t] = "" => result[t] \in {"", "Skipped"}
         /\ result[t] = "Skipped" => seen[t] = "entries"
    /\ pc \notin {"login", "edl", "token", "failed"} => err.type = "None"
    /\ pc = "done" =>
         \A t \in 1..row :
           /\ result[t] # ""
           /\ reported[t] = 1
           /\ Alone(t) => answer[t] # ""

C3_Witness ==
    /\ pc = "done"
    /\ row = 3
    /\ answer[1] = "not_ok" /\ result[1] = "Failed"
    /\ \A t \in 2..3 : answer[t] = "ok" /\ result[t] = "Downloaded"
    /\ \A t \in 1..3 : reported[t] = 1

\* C4: "Complete." is echoed only after the input is exhausted and every
\* submitted task has finished: none is queued or running.
C4_CompleteAfterAllFinished ==
    complete =>
      /\ pc \in {"exit", "done"}
      /\ row = csv_rows
      /\ \A t \in 1..row : Finished(t)
      /\ \A t \in Tasks : t > row => phase[t] = "NONE"

C4_Witness ==
    /\ complete
    /\ pc = "exit"
    /\ row = MaxTasks
    /\ \E t \in Tasks : phase[t] = "callbacks"

\* C5: a task is submitted or a download requested only after
\* get_auth_token returned a token; when the login fails the exception
\* leaves cli before the pool exists and no task is ever submitted.
NoTask ==
    /\ row = 0
    /\ \A t \in Tasks : phase[t] = "NONE" /\ requests[t] = 0
    /\ future_to_path = {}
    /\ bearer = {}

C5_NoTaskWithoutToken ==
    /\ token = None => NoTask
    /\ pc \in {"login", "edl", "token", "failed"} => NoTask /\ token = None
    /\ pc = "failed" => err.type # "None"
    /\ ~NoTask => /\ Len(sent) = 3
                  /\ err.type = "None"
                  /\ token \in Tokens
                  /\ bearer \subseteq {token}

C5_Witness ==
    /\ pc = "failed"
    /\ err.type = "AuthError"
    /\ Len(sent) = 2
    /\ NoTask

\* out_dir/path exists and os.listdir finds an entry in it
HasEntries(t) ==
    /\ disk[RowPath(t)].exists
    /\ disk[RowPath(t)].files # {}

\* C6: download_file on a directory that exists and has an entry returns
\* Skipped, issues no request and leaves every file as it was; a request is
\* issued only by a task whose check found the directory absent or empty.
C6_SkipIssuesNoRequest ==
    /\ [](\A t \in Tasks :
            seen[t] = "entries" =>
              result[t] = "Skipped" /\ requests[t] = 0 /\ answer[t] = "")
    /\ [][\A t \in Tasks :
            /\ (phase[t] = "check" /\ phase'[t] # "check" /\ HasEntries(t)) =>
                 /\ result'[t] = "Skipped"
                 /\ phase'[t] = "set_result"
                 /\ requests' = requests
                 /\ bearer' = bearer
                 /\ disk' = disk
            /\ requests'[t] # requests[t] =>
                 /\ phase[t] = "download"
                 /\ seen[t] = "no_entries"]_vars

C6_Witness ==
    \E t \in Tasks :
      /\ phase[t] = "done"
      /\ seen[t] = "entries"
      /\ result[t] = "Skipped"
      /\ requests[t] = 0

\* C7: after a run in which every task was Downloaded, a second run with
\* the same input and destination reports Skipped for every task and issues
\* no download request.
C7_SecondRunSkipsAll ==
    run = 2 =>
      /\ \A t \in Tasks :
           /\ requests[t] = 0
           /\ answer[t] = ""
           /\ result[t] \in {"", "Skipped"}
      /\ bearer = {}
      /\ row <= csv_rows
      /\ pc = "done" =>
           /\ row = csv_rows
           /\ \A t \in 1..row : result[t] = "Skipped" /\ reported[t] = 1

C7_Witness ==
    /\ run = 2
    /\ pc = "done"
    /\ row = 3
    /\ \A t \in 1..3 : result[t] = "Skipped" /\ reported[t] = 1

\* C8: when the transfer fails after the body started streaming, no
\* truncated file is left under the final name in the destination directory.
C8_NoTruncatedFileLeft ==
    \A t \in Tasks :
      answer[t] = "broken_body" =>
        \A f \in disk[RowPath(t)].files : f[2] # "truncated"

\* what get_auth_token requires of the three answers
Step1Passes(r) ==
    /\ r.status \in {302, 307}
    /\ HasHeader(r.headers, "Location")
    /\ StartsWith(UrlPath(HeaderGet(r.headers, "Location", <<>>)),
                  <<"/oauth/authorize">>)

Step2Passes(r) ==
    /\ r.status \in {302, 307}
    /\ HasHeader(r.headers, "Location")
    /\ LET qs == parse_qs(UrlQuery(HeaderGet(r.headers, "Location", <<>>)))
       IN  "code" \in DOMAIN qs /\ "error" \notin DOMAIN qs

\* the token POST answers with success: a success status and the JSON body
\* with the access_token
Step3Passes(r) ==
    /\ r.status >= 200 /\ r.status < 400
    /\ r.body.json
    /\ \E kv \in r.body.obj : kv[1] = "access_token"

\* C9: get_auth_token returns a token exactly when step 1 answers 302 or 307
\* with a Location whose path begins with /oauth/authorize, step 2 answers
\* 302 or 307 with a Location whose query has code and no error, and the
\* token POST answers with success; the token is the access_token of that
\* body.
C9_TokenExactlyOnThreePasses ==
    /\ pc = "edl" => Len(sent) = 1 /\ Step1Passes(response)
    /\ pc = "token" => Len(sent) = 2 /\ Step2Passes(response)
    /\ pc = "pool" =>
         /\ Len(sent) = 3
         /\ Step3Passes(response)
         /\ <<"access_token", token>> \in response.body.obj
         /\ token = grant
    /\ pc = "failed" =>
         /\ token = None
         /\ \/ Len(sent) = 1 /\ ~Step1Passes(response)
            \/ Len(sent) = 2 /\ ~Step2Passes(response)
            \/ Len(sent) = 3 /\ ~Step3Passes(response)
    /\ pc \in {"login", "edl", "token"} => token = None

C9_Witness ==
    /\ pc = "pool"
    /\ token = "tokB"
    /\ Len(sent) = 3
    /\ response.status = 200

\* C10: a step-1 answer that is not 302 or 307, or whose Location is missing
\* or has a path that does not begin with /oauth/authorize, ends
\* get_auth_token with an AuthError naming the status or the path; no
\* further request is issued, so the credentials are never sent.
C10_Step1FailureStops ==
    /\ [](Len(sent) = 1 /\ ~Step1Passes(response) =>
            /\ pc = "failed"
            /\ err.type = "AuthError"
            /\ sent[1].auth = <<>>
            /\ IF response.status \notin {302, 307}
               THEN err.detail = <<response.status>>
               ELSE err.detail =
                      UrlPath(HeaderGet(response.headers, "Location", <<>>)))
    /\ [][pc = "failed" => sent' = sent]_vars

C10_Witness ==
    /\ pc = "failed"
    /\ Len(sent) = 1
    /\ response.status = 302
    /\ err.type = "AuthError"
    /\ err.detail = <<"/login", "/oauth/authorize">>

\* C11: at step 2 an answer with a status of 400 or more ends get_auth_token
\* with an AuthError that carries the text of the answer, and an answer with
\* a status below 400 other than 302 and 307 ends it with an AuthError saying
\* that a redirect was expected; the token POST is not issued after either.
C11_Step2FailureStops ==
    /\ [](Len(sent) = 2 /\ response.status \notin {302, 307} =>
            /\ pc = "failed"
            /\ err.type = "AuthError"
            /\ \A i \in 1..Len(sent) : sent[i].req # "token"
            /\ IF response.status >= 400
               THEN /\ err.why = "Failed to authenticate with Earthdata Login."
                    /\ err.detail = response.text
               ELSE /\ err.why =
                         "Expected Earthdata Login to respond with a redirect, got"
                    /\ err.detail = <<response.status>>)
    /\ [][pc = "failed" => sent' = sent /\ pc' = "failed"]_vars

C11_Witness ==
    /\ pc = "failed"
    /\ Len(sent) = 2
    /\ response.status = 401
    /\ response.text # <<>>
    /\ err.detail = response.text

\* the query of the Location of an answer
LocationQuery(r) == parse_qs(UrlQuery(HeaderGet(r.headers, "Location", <<>>)))

\* the last answer is a step-2 redirect whose Location carries an error
ErrorRedirect ==
    /\ Len(sent) = 2
    /\ response.status \in {302, 307}
    /\ HasHeader(response.headers, "Location")
    /\ "error" \in DOMAIN LocationQuery(response)

\* C12: a step-2 redirect whose query has an error parameter, and which is
\* not the app-authorization case, ends login with an AuthError that
\* surfaces error_msg, whether or not the redirect carries error_msg; the
\* token POST is not issued.
C12_ErrorRedirectIsAuthError ==
    (/\ ErrorRedirect
     /\ ~(response.status = 302 /\ Contains(response.text, "resolution_url")))
    => /\ pc = "failed"
       /\ err.type = "AuthError"
       /\ "error_msg" \in DOMAIN LocationQuery(response) =>
            err.detail = LocationQuery(response)["error_msg"]
       /\ \A i \in 1..Len(sent) : sent[i].req # "token"

\* login ended with the AuthError that sends the user to the resolution url
AppAuthorizationError ==
    /\ pc = "failed"
    /\ err.type = "AuthError"
    /\ err.why = "Authorization required for this application"

\* C13: the app-authorization AuthError is raised exactly when the step-2
\* redirect has an error parameter in its query, its status is 302 and its
\* body contains resolution_url, whether or not error_msg is there as well;
\* an error redirect with status 307, or without resolution_url in the body,
\* goes to the error_msg branch (the AuthError of error_msg, or the failure
\* of that subscript).
C13_AppAuthorizationExactly ==
    /\ AppAuthorizationError <=>
         /\ ErrorRedirect
         /\ response.status = 302
         /\ Contains(response.text, "resolution_url")
    /\ (/\ ErrorRedirect
        /\ response.status = 307 \/ ~Contains(response.text, "resolution_url"))
       => /\ pc = "failed"
          /\ IF "error_msg" \in DOMAIN LocationQuery(response)
             THEN err.type = "AuthError" /\ err.why = "error_msg"
             ELSE err.type = "KeyError"

C13_Witness ==
    /\ AppAuthorizationError
    /\ response.status = 302
    /\ "error_msg" \in DOMAIN LocationQuery(response)
    /\ "code" \in DOMAIN LocationQuery(response)
    /\ err.detail = <<"https://urs/approve_app">>

Credentials == {username, password}

\* C14: the username and password go out in at most one request, the step-2
\* GET, whose URL is the Location of the step-1 answer with a path that
\* begins with /oauth/authorize; the step-1 request, the token POST and the
\* download requests carry none of them, and nothing the client keeps after
\* get_auth_token returned or failed holds them.
C14_CredentialsSentOnce ==
    /\ \A i \in 1..Len(sent) :
         sent[i].auth # <<>> =>
           /\ i = 2
           /\ sent[i].req = "edl"
           /\ sent[i].auth = <<username, password>>
    /\ \A i \in 1..Len(sent) : sent[i].req # "edl" => sent[i].auth = <<>>
    /\ pc = "edl" =>
         /\ Len(sent) = 1
         /\ edl_url = HeaderGet(response.headers, "Location", <<>>)
         /\ StartsWith(UrlPath(edl_url), <<"/oauth/authorize">>)
    /\ bearer \cap Credentials = {}
    /\ pc \notin {"login", "edl", "token"} =>
         /\ edl_url = <<>>
         /\ code = {}
         /\ token \notin Credentials

C14_Witness ==
    /\ pc = "done"
    /\ Len(sent) = 3
    /\ sent[2].auth = <<username, password>>
    /\ \E t \in Tasks : requests[t] > 0 /\ bearer = {token}

\* every task submitted, other than the stalled one, has run and was reported
OthersReported ==
    \A t \in 1..row :
      t # stalled => phase[t] = "done" /\ result[t] # "" /\ reported[t] = 1

Executing == { t \in Tasks : phase[t] \in {"check", "download"} }

\* C16: at most max_workers tasks are inside download_file at any instant;
\* a task submitted while every worker is busy stays queued, and the work
\* item of each task is taken from the queue once, by one worker.
C16_AtMostConcurrencyRunning ==
    /\ Cardinality(Executing) <= max_workers
    /\ Cardinality(Held) <= max_workers
    /\ \A t \in Tasks :
         /\ started[t] <= 1
         /\ phase[t] \in {"NONE", "PENDING"} <=> started[t] = 0
         /\ phase[t] = "PENDING" => t <= row
    /\ \A t \in Queued : \A u \in Tasks : phase[u] = "NONE" => t < u

C16_Witness ==
    /\ max_workers = 2
    /\ Cardinality(Executing) = 2
    /\ Cardinality(Queued) >= 2
    /\ \A t \in Executing : started[t] = 1

\* C17: for an answer that is not ok download_file returns (and does not
\* raise) the Failed result with the detail of the JSON body, or with the
\* text of the answer when the body is not JSON or has no detail; it writes
\* no file, so a directory that was empty is left empty and a later task
\* for it issues the request again.
C17_FailedCarriesDetail ==
    \A t \in Tasks :
      answer[t] = "not_ok" =>
        /\ result[t] = "Failed"
        /\ msg[t] = IF \E kv \in failure.obj : kv[1] = "detail"
                    THEN <<(CHOOSE kv \in failure.obj : kv[1] = "detail")[2]>>
                    ELSE failure.text
        /\ Alone(t) => disk[RowPath(t)] = [exists |-> TRUE, files |-> {}]

\* the file name the claim gives for each asset: the name after filename=
\* for the asset answered with one, the last segment of the path otherwise
NameOf(path) == IF path = P2 THEN <<"scene123.tif">> ELSE <<path[3]>>

\* C18: a download that arrives writes one file, out_dir/path/filename, with
\* filename the last segment of path unless Content-Disposition names one;
\* the Downloaded result names that file, a directory never holds a file
\* of another name, and a directory no download went to stays as it was.
C18_WritesOneFileUnderItsName ==
    /\ \A t \in Tasks :
         answer[t] = "ok" =>
           /\ result[t] = "Downloaded"
           /\ msg[t] = RowPath(t) \o NameOf(RowPath(t))
           /\ disk[RowPath(t)].exists
           /\ \E f \in disk[RowPath(t)].files : f[1] = NameOf(RowPath(t))
           /\ Alone(t) =>
                disk[RowPath(t)].files = {<<NameOf(RowPath(t)), "whole">>}
    /\ \A q \in Paths :
         /\ \A f \in disk[q].files : f[1] = NameOf(q)
         /\ Cardinality(disk[q].files) <= 1
         /\ (\A t \in Tasks : RowPath(t) = q => answer[t] = "") => disk[q] = NoDir

C18_Witness ==
    /\ pc = "done"
    /\ \A t \in 1..3 : answer[t] = "ok"
    /\ msg[1] = <<"c1", "s1", "a1", "a1">>
    /\ msg[2] = <<"c1", "s2", "a1", "scene123.tif">>
    /\ msg[3] = <<"c1", "s3", "a1", "a1">>
    /\ disk[P2].files = {<< <<"scene123.tif">>, "whole" >>}
    /\ disk[P3].files = {<< <<"a1">>, "whole" >>}

\* C19: every request sent after a login that succeeded has the
\* Authorization header "Bearer <token>", with the access_token of the token
\* exchange; no request has a bearer header before login succeeded or after
\* it failed.
C19_BearerHeaderOnEveryRequest ==
    /\ authorization \subseteq {<<"Bearer", " ", token>>}
    /\ token = None => authorization = {}
    /\ pc \in {"login", "edl", "token", "failed"} => authorization = {}
    /\ pc = "session" => session = <<"Bearer", " ", token>>
    /\ token # None => token = grant

\* C20: no mkdir call of a task raises because another worker created the
\* task's directory or one above it in between, and when the call returns
\* the task's directory and every directory above it exist.
C20_MkdirToleratesRaces ==
    /\ \A t \in Tasks :
         /\ mk[t] \in {"", "mkdir", "made"}
         /\ mk[t] = "made" => Prefixes(RowPath(t)) \subseteq tree
    /\ \A d \in tree : d = <<>> \/ SubSeq(d, 1, Len(d) - 1) \in tree

C20_Witness ==
    /\ max_workers = 2
    /\ \A t \in Tasks : mk[t] = "made"
    /\ \E t \in Tasks : RowPath(t) \in met[t] \cap absent[t]
    /\ \E t \in Tasks : <<"c1">> \in met[t] \cap absent[t]

\* the last answer is a step-2 redirect
Step2Redirect ==
    /\ Len(sent) = 2
    /\ response.status \in {302, 307}

\* C21: the failures of login at steps 1 to 3 are AuthErrors and no other
\* exception: a step-1 answer with a status of 400 or more, a step-2 redirect
\* without a Location header, and a step-2 redirect whose query has neither
\* error nor code each end login with an AuthError.
C21_LoginFailuresAreAuthErrors ==
    /\ Len(sent) = 1 /\ response.status >= 400 =>
         pc = "failed" /\ err.type = "AuthError"
    /\ Step2Redirect /\ ~HasHeader(response.headers, "Location") =>
         pc = "failed" /\ err.type = "AuthError"
    /\ (/\ Step2Redirect
        /\ HasHeader(response.headers, "Location")
        /\ DOMAIN LocationQuery(response) \cap {"error", "code"} = {}) =>
         pc = "failed" /\ err.type = "AuthError"

\* the order of the requests of a login
LoginOrder == <<"authorize", "edl", "token">>

\* the terminal states of a login
Authenticated == pc = "pool" /\ token # None /\ err.type = "None"
Failed == pc = "failed" /\ token = None /\ err.type # "None"

\* C22: a login issues the authorize GET, the identity-provider GET and the
\* token POST in this order, each at most once and the two GETs without
\* following redirects; a request is issued only when the answer before it
\* passed its checks; the run ends in exactly one of Authenticated and
\* Failed and stays there; and a token POST answered with a status of 400 or
\* more ends it in Failed with an HTTPError and no token.
C22_LoginRunsInOrder ==
    /\ [](/\ Len(sent) <= 3
          /\ \A i \in 1..Len(sent) :
               /\ sent[i].req = LoginOrder[i]
               /\ i < 3 => ~AllowRedirects(sent[i].req))
    /\ [][sent' # sent =>
            /\ sent' = Append(sent, Request(LoginOrder[Len(sent) + 1],
                                            sent'[Len(sent')].auth))
            /\ err.type = "None"
            /\ Len(sent) = 1 => Step1Passes(response)
            /\ Len(sent) = 2 => Step2Passes(response)]_vars
    /\ [](~(Authenticated /\ Failed))
    /\ <>[](Authenticated \/ Failed)
    /\ [][Authenticated \/ Failed => UNCHANGED loginVars]_vars
    /\ [](Len(sent) = 3 /\ response.status >= 400 =>
            /\ Failed
            /\ err.type = "HTTPError")

C22_Witness ==
    /\ Failed
    /\ Len(sent) = 3
    /\ response.status = 500
    /\ err.type = "HTTPError"
    /\ <<"access_token", grant>> \in response.body.obj

\* C23: whenever log_results runs for a future, in a worker thread or in the
\* main thread, the future is in future_to_path, so that the pop finds it and
\* the result is logged, wherever the task finishes among the producer's
\* three steps; a future is put into the dictionary once, by the producer
\* and before its callback is registered, it is removed once, and the
\* dictionary is empty when the executor has shut down.
C23_PopNeverFails ==
    /\ [](/\ callbacks \subseteq future_to_path
          /\ pc = "add_done_callback" => row \in future_to_path
          /\ \A t \in Tasks :
               /\ reported[t] <= 1
               /\ t \in future_to_path => reported[t] = 0 /\ t <= row
          /\ pc = "done" =>
               /\ future_to_path = {}
               /\ \A t \in 1..row : reported[t] = 1)
    /\ [][/\ \A t \in callbacks \ callbacks' :
               /\ t \in future_to_path
               /\ reported'[t] = reported[t] + 1
          /\ pc = "add_done_callback" /\ pc' # pc /\ row \notin callbacks' =>
               /\ row \in future_to_path
               /\ reported'[row] = reported[row] + 1
          /\ \A t \in future_to_path' \ future_to_path :
               /\ pc = "set_path"
               /\ t = row
               /\ reported[t] = 0
               /\ t \notin callbacks]_vars

\* a task finished between submit and the assignment to future_to_path,
\* while the result of an earlier one was logged by a worker thread
C23_Witness ==
    /\ pc = "set_path"
    /\ phase[row] = "done"
    /\ row \notin future_to_path
    /\ \E t \in 1..(row - 1) : reported[t] = 1 /\ phase[t] = "done"
    /\ \E t \in 1..(row - 1) : t \in callbacks /\ Running(t)

\* C24: when "Complete." is echoed, log_results has reported the result of
\* every task submitted and future_to_path is empty, so that no result line
\* comes after "Complete.".
C24_NoResultAfterComplete ==
    complete =>
      /\ future_to_path = {}
      /\ \A t \in 1..row : reported[t] = 1

\* the tasks, of those with one destination, that issued a download request
\* which was answered with the file
Fetched(path) ==
    { t \in Tasks : RowPath(t) = path /\ requests[t] > 0 /\ answer[t] = "ok" }

\* C25: within one run no destination out_dir/path is downloaded by more
\* than one request: of two tasks with the same path that run at the same
\* time, only one gets past the check and issues the request.
C25_OneDownloadPerDestination ==
    \A path \in Paths : Cardinality(Fetched(path)) <= 1

\* C26: when every download_file call finishes, the run ends: the
\* backpressure wait and the last wait always return, "Complete." is echoed
\* and the executor shuts down, for every number of rows and every
\* concurrency; a run whose login fails ends there.
C26_RunTerminates ==
    /\ (pc = "wait_first" \/ pc = "wait_all") ~> (pc = "loop" \/ complete)
    /\ <>[](pc = "failed" \/ (pc = "done" /\ complete))

C26_Witness ==
    /\ pc = "done"
    /\ complete
    /\ max_workers = 1
    /\ row = MaxTasks
    /\ \A t \in Tasks : reported[t] = 1
    /\ \E t \in Tasks : result[t] = "Raised"
    /\ \E t \in Tasks : result[t] = "Skipped"

\* some row of input file c, among its first l rows, has an order_id column
SeenOrderId(c, l) == \E j \in 1..l : "order_id" \in DOMAIN input_csvs[c][j]

\* the endpoint version in force after l rows of input file c
VersionAt(c, l) == IF SeenOrderId(c, l) THEN 1 ELSE 2

\* how many times the legacy warning was logged for input file c
Warned(c) == Cardinality({ i \in 1..Len(warnings) : warnings[i] = c })

\* C27: within one input CSV api_version is 2 until the first row with an
\* order_id column, 1 from that row on and never 2 again, with the legacy
\* warning logged at most once per CSV (once exactly when the switch
\* happened); it is 2 again at the start of the next CSV; every task is
\* submitted with the version in force at its row, its path being
\* order_id/scene_id/asset_type under version 1 and
\* collection_id/scene_id/asset_type under version 2, and download_file
\* requests v<version>/download/<path> for it.
C27_VersionFollowsCsv ==
    /\ [](/\ csv >= 1 => api_version = VersionAt(csv, line)
          /\ \A c \in 1..Len(input_csvs) :
               /\ Warned(c) <= 1
               /\ Warned(c) = 1 <=>
                    \/ c < csv /\ SeenOrderId(c, Len(input_csvs[c]))
                    \/ c = csv /\ SeenOrderId(c, line)
          /\ \A i \in 1..Len(submitted) :
               LET e == submitted[i]
                   r == input_csvs[e.csv][e.line]
               IN  /\ e.endpoint_version = VersionAt(e.csv, e.line)
                   /\ e.endpoint_version = 1 =>
                        e.path = <<r["order_id"], r["scene_id"], r["asset_type"]>>
                   /\ e.endpoint_version = 2 =>
                        e.path = <<r["collection_id"], r["scene_id"],
                                   r["asset_type"]>>
                   /\ e.url = <<"v", IF e.endpoint_version = 1 THEN "1" ELSE "2",
                                "/download/">> \o e.path)
    /\ [][csv' = csv /\ api_version = 1 => api_version' = 1]_vars
    /\ [][csv' # csv => csv' = csv + 1 /\ api_version' = 2]_vars
    /\ [][csv' = csv /\ api_version' # api_version =>
            /\ api_version = 2
            /\ api_version' = 1
            /\ "order_id" \in DOMAIN input_csvs[csv][line']
            /\ warnings' = Append(warnings, csv)]_vars

\* a legacy CSV whose first row is filtered out, then a CSV of the current
\* format: tasks of both versions were submitted, with one warning
C27_Witness ==
    /\ pc = "wait_all"
    /\ Len(input_csvs) = 2
    /\ scene_ids = {"s2"}
    /\ warnings = <<1>>
    /\ Len(submitted) = 2
    /\ submitted[1].line = 2
    /\ submitted[1].endpoint_version = 1
    /\ submitted[1].path = <<"o1", "S2", "b1">>
    /\ submitted[2].csv = 2
    /\ submitted[2].endpoint_version = 2
    /\ submitted[2].url = <<"v", "2", "/download/", "c1", "S2", "b1">>

====
